---- MODULE Spec2Model ----
(***************************************************************************)
(* Model of simmc/utils/conf_injector.py: field discovery, the config      *)
(* session (load on __enter__, save on __exit__) and the Inject decorator. *)
(*                                                                         *)
(* Attribute names are tuples of characters so that name.startswith('_')   *)
(* is computed, not assumed.  Runtime values, JSON values and file texts   *)
(* are distinct representations: the codec and json.load / json.dump       *)
(* convert between them and can fail.                                      *)
(***************************************************************************)
EXTENDS Integers, Sequences, FiniteSets, TLC

\* ------------------------------------------------------------------ bounds
\* Constructions each thread may start.
MaxRuns == 1

Threads == {"t1", "t2"}
NoThread == "none"

\* ------------------------------------------------------- attribute names
size == <<"s", "i", "z", "e">>
level == <<"l", "v">>
tag == <<"t", "a", "g">>
run == <<"r", "u", "n">>
extra == <<"x">>
_private == <<"_", "p">>

EmptyMap == [n \in {} |-> "none"]

\* ------------------------------------------------------------ value codec
\* Runtime values: "i:10", "i:42" (int), "s:a" (str), "obj" (a value no
\* declared type can encode).  JSON values: "10", "42", "qa", "bad".
Failed == [ok |-> FALSE, val |-> "none"]
Ok(v) == [ok |-> TRUE, val |-> v]

serialize_value(val, field_type) ==
    CASE field_type = "int" /\ val = "i:10" -> Ok("10")
      [] field_type = "int" /\ val = "i:42" -> Ok("42")
      [] field_type = "str" /\ val = "s:a" -> Ok("qa")
      [] OTHER -> Failed

deserialize_value(raw_val, field_type) ==
    CASE field_type = "int" /\ raw_val \in {"10", "i:10"} -> Ok("i:10")
      [] field_type = "int" /\ raw_val \in {"42", "i:42"} -> Ok("i:42")
      [] field_type = "str" /\ raw_val \in {"qa", "s:a"} -> Ok("s:a")
      [] OTHER -> Failed

\* ------------------------------------------------------------ JSON, files
\* A JSON value read from the document: a mapping (isMap) from class key to
\* entry, or something else (a list, a number).  An entry is a mapping from
\* field name to JSON value, or something else.
Block(f) == [isMap |-> TRUE, f |-> f]
NotABlock == [isMap |-> FALSE, f |-> EmptyMap]
Doc(m) == [isMap |-> TRUE, m |-> m]
NotADoc == [isMap |-> FALSE, m |-> EmptyMap]
EmptyDoc == Doc(EmptyMap)

\* File texts: "json" is the complete output of json.dump for val, "partial"
\* a strict prefix of it, "garbage" text that is not JSON.
NoFile == [kind |-> "absent", val |-> NotADoc, readable |-> FALSE]
Garbage == [kind |-> "garbage", val |-> NotADoc, readable |-> TRUE]
Partial(v) == [kind |-> "partial", val |-> v, readable |-> TRUE]

json_dump(v) == [kind |-> "json", val |-> v, readable |-> TRUE]

\* json.load on an opened file: JSONDecodeError unless the text is a
\* complete JSON document.
json_load(f) == IF f.kind = "json" THEN Ok(f.val) ELSE [ok |-> FALSE, val |-> NotADoc]

path_exists(f) == f.kind # "absent"

\* dict.get(key, {}) on a mapping.
DictGet(m, k, dflt) == IF k \in DOMAIN m THEN m[k] ELSE dflt

\* ------------------------------------------------------- field discovery
startswith_underscore(name) == Len(name) > 0 /\ name[1] = "_"

\* callable(getattr(cls, name, None))
callable_attr(attrs, name) == name \in DOMAIN attrs /\ attrs[name].callable

\* Variant of Qualifies without the private-name filter.
Qualifies_NoPrivateFilter(name, annotations, instance_defaults, attrs) ==
    /\ name \in DOMAIN annotations
    /\ name \in DOMAIN instance_defaults
    /\ ~callable_attr(attrs, name)

\* The four filters of the candidate loop.
Qualifies(name, annotations, instance_defaults, attrs) ==
    /\ name \in DOMAIN annotations
    /\ name \in DOMAIN instance_defaults
    /\ ~startswith_underscore(name)
    /\ ~callable_attr(attrs, name)

None == [isNone |-> TRUE, names |-> {}]
Some(s) == [isNone |-> FALSE, names |-> s]

_get_configurable_fields(annotations, attrs, explicit_fields, instance_defaults) ==
    LET candidates == IF ~explicit_fields.isNone THEN explicit_fields.names
                      ELSE DOMAIN annotations
        valid_fields == {name \in candidates :
                            Qualifies(name, annotations, instance_defaults, attrs)}
    IN  [field_types |-> [name \in valid_fields |-> annotations[name]],
         valid_fields |-> valid_fields]


\* --------------------------------------------------- decorated classes
\* A decorated class: its __qualname__ (key), its resolved annotations, its
\* class attributes (callable or data with a default), the decorator's
\* arguments (at, readonly) and the attributes its own __init__ assigns.
Data(v) == [callable |-> FALSE, val |-> v]
Method == [callable |-> TRUE, val |-> "none"]

ClassIds == {"A", "B", "R", "RC", "E", "W", "S"}

ClassOf(id) ==
    CASE id = "A" ->
           [key |-> "A",
            annotations |-> (size :> "int" @@ level :> "int" @@ _private :> "int" @@ extra :> "int"),
            attrs |-> (size :> Data("i:10") @@ level :> Data("i:10")
                       @@ _private :> Data("i:10") @@ run :> Method),
            at |-> None, readonly |-> FALSE, ctor |-> EmptyMap]
      [] id = "B" ->
           [key |-> "B",
            annotations |-> (level :> "int" @@ tag :> "int"),
            attrs |-> (level :> Data("i:10") @@ tag :> Data("obj") @@ run :> Method),
            at |-> None, readonly |-> FALSE, ctor |-> (level :> "i:42")]
      [] id = "R" ->
           [key |-> "R",
            annotations |-> (size :> "int" @@ level :> "int"),
            attrs |-> (size :> Data("i:10") @@ level :> Data("i:10")),
            at |-> None, readonly |-> TRUE, ctor |-> EmptyMap]
      [] id = "RC" ->
           [key |-> "RC",
            annotations |-> (size :> "int"),
            attrs |-> (size :> Data("i:10")),
            at |-> None, readonly |-> TRUE, ctor |-> (size :> "i:42")]
      [] id = "E" ->
           [key |-> "E",
            annotations |-> (size :> "int" @@ tag :> "str"),
            attrs |-> (size :> Data("i:10") @@ tag :> Data("s:a")),
            at |-> Some({}), readonly |-> FALSE, ctor |-> EmptyMap]
      [] id = "W" ->
           [key |-> "W",
            annotations |-> (size :> "int" @@ _private :> "int"),
            attrs |-> (size :> Data("i:10") @@ _private :> Data("i:10") @@ run :> Method),
            at |-> Some({_private, run, extra}), readonly |-> FALSE, ctor |-> EmptyMap]
      [] OTHER ->
           [key |-> "S",
            annotations |-> (size :> "int" @@ level :> "int"),
            attrs |-> (size :> Data("i:10") @@ level :> Data("i:10")),
            at |-> Some({size, _private}), readonly |-> FALSE, ctor |-> EmptyMap]

\* Inject.__init__: self._fields = set(at) if at else None
Inject_fields(at) == IF ~at.isNone /\ at.names # {} THEN Some(at.names) ELSE None

\* new_init: instance_defaults collected from dir(cls)
collect_instance_defaults(attrs) ==
    [name \in {n \in DOMAIN attrs : ~startswith_underscore(n) /\ ~attrs[n].callable}
        |-> attrs[name].val]

\* ------------------------------------------------------ attribute access
\* protect(name, value) declares two parameters; the class-level
\* __setattr__ is invoked with (instance, name, value).
protect_params == 2
setattr_args == 3

\* Outcome of setattr(instance, name, value) on an instance of class c.
setattr_error(c) ==
    IF ~c.readonly THEN "none"
    ELSE IF setattr_args # protect_params THEN "TypeError"
    ELSE "AttributeError"

hasattr(c, dict, name) == name \in DOMAIN dict \/ name \in DOMAIN c.attrs

getattr(c, dict, name) ==
    IF name \in DOMAIN dict THEN Ok(dict[name])
    ELSE IF name \in DOMAIN c.attrs THEN Ok(c.attrs[name].val)
    ELSE Failed

\* ------------------------------------------------------------ the session
\* Variant of LoadField that assigns the raw value without decoding it.
LoadField_NoDecode(c, dict, field_types, class_config, key) ==
    LET default_val == getattr(c, dict, key).val
        raw_val == DictGet(class_config, key, default_val)
    IN  IF hasattr(c, dict, key) /\ setattr_error(c) = "none"
        THEN Ok(raw_val) ELSE Failed

\* Variant of LoadField that assigns the raw value when decoding fails.
LoadField_KeepRaw(c, dict, field_types, class_config, key) ==
    LET default_val == getattr(c, dict, key).val
        raw_val == DictGet(class_config, key, default_val)
        injected == deserialize_value(raw_val, field_types[key])
    IN  IF hasattr(c, dict, key) /\ setattr_error(c) = "none"
        THEN (IF injected.ok THEN Ok(injected.val) ELSE Ok(raw_val))
        ELSE Failed

\* __enter__ loop body: the value the instance holds for key after the loop.
\* The assignment is skipped when the instance lacks the attribute, when
\* decoding fails, or when setattr raises (all caught inside the loop).
LoadField(c, dict, field_types, class_config, key) ==
    LET default_val == getattr(c, dict, key).val
        raw_val == DictGet(class_config, key, default_val)
        injected == deserialize_value(raw_val, field_types[key])
    IN  IF hasattr(c, dict, key) /\ injected.ok /\ setattr_error(c) = "none"
        THEN Ok(injected.val) ELSE Failed

LoadFields(c, dict, field_types, fields, class_config) ==
    LET assigned == {k \in fields : LoadField(c, dict, field_types, class_config, k).ok}
    IN  [k \in (DOMAIN dict) \cup assigned |->
            IF k \in assigned
            THEN LoadField(c, dict, field_types, class_config, k).val
            ELSE dict[k]]

\* __exit__: class_block holds the fields whose getattr and encoding succeed.
EncodeField(c, dict, field_types, key) ==
    LET val == getattr(c, dict, key)
    IN  IF val.ok THEN serialize_value(val.val, field_types[key]) ELSE Failed

\* Variant of BuildBlock in which one failing field empties the block.
BuildBlock_AllOrNothing(c, dict, field_types, fields) ==
    IF \A k \in fields : EncodeField(c, dict, field_types, k).ok
    THEN [k \in fields |-> EncodeField(c, dict, field_types, k).val]
    ELSE EmptyMap

BuildBlock(c, dict, field_types, fields) ==
    LET saved == {k \in fields : EncodeField(c, dict, field_types, k).ok}
    IN  [k \in saved |-> EncodeField(c, dict, field_types, k).val]

\* Variant of MergeBlock that writes a document holding the own block only.
MergeBlock_OwnOnly(full_config, class_key, class_block) ==
    Doc(class_key :> Block(class_block))

\* Variant of MergeBlock that updates the old own block instead of replacing it.
MergeBlock_Update(full_config, class_key, class_block) ==
    LET old == DictGet(full_config.m, class_key, Block(EmptyMap)).f IN
    Doc([k \in (DOMAIN full_config.m) \cup {class_key} |->
            IF k = class_key
            THEN Block([f \in (DOMAIN old) \cup (DOMAIN class_block) |->
                           IF f \in DOMAIN class_block THEN class_block[f] ELSE old[f]])
            ELSE full_config.m[k]])

\* full_config[self._class_key] = class_block
MergeBlock(full_config, class_key, class_block) ==
    Doc([k \in (DOMAIN full_config.m) \cup {class_key} |->
            IF k = class_key THEN Block(class_block) ELSE full_config.m[k]])


\* ------------------------------------------------------------------ state
VARIABLES
    file,         \* the document at self._path
    tmp,          \* per thread: the temp file its mkstemp created
    lock,         \* holder of _LOCK
    pc,           \* per thread: position in new_init / the session
    cls,          \* per thread: the decorated class being constructed
    runs,         \* per thread: constructions started
    inst,         \* per thread: the instance's own attributes (__dict__)
    field_types,  \* per thread: field_types of the discovery
    fields,       \* per thread: fields_to_inject
    class_config, \* per thread: class_config of __enter__
    defaults,     \* per thread: the default_val of each field seen by __enter__
    reread,       \* per thread: the document on disk when __exit__ started (its re-read)
    full_config,  \* per thread: full_config of __exit__
    class_block,  \* per thread: class_block of __exit__
    err,          \* per thread: the exception the construction raised
    raisedIn,     \* per thread: where it was raised
    setErr,       \* per thread: outcome of the last external assignment
    enter_config, \* per thread: full_config of __enter__, kept until the session ends
    lastSave,     \* the class whose save was the last to replace the target
    dIn,          \* field discovery on its own: the arguments
    dOut,         \* ... the returned pair and the block built from it
    dPc

vars == <<file, tmp, lock, pc, cls, runs, inst, field_types, fields, class_config,
          defaults, reread, full_config, class_block, err, raisedIn, setErr,
          enter_config, lastSave, dIn, dOut, dPc>>

threadVars == <<file, tmp, lock, pc, cls, runs, inst, field_types, fields, class_config,
                defaults, reread, full_config, class_block, err, raisedIn, setErr,
                enter_config, lastSave>>
discoverVars == <<dIn, dOut, dPc>>

\* Documents the file may hold before the first construction.
HandEdited ==
    Doc("A" :> Block(size :> "42" @@ level :> "bad" @@ extra :> "10")
        @@ "B" :> Block(tag :> "bad")
        @@ "R" :> Block(size :> "42" @@ level :> "bad")
        @@ "X" :> Block(size :> "bad"))

InitFiles ==
    { NoFile,
      Garbage,
      json_dump(NotADoc),
      json_dump(HandEdited),
      [json_dump(HandEdited) EXCEPT !.readable = FALSE],
      json_dump(Doc("A" :> NotABlock @@ "X" :> Block(size :> "10"))) }

\* Names and values used by field discovery on its own.
DNames == {size, _private, run}
DAttrKinds == {"absent", "data", "method"}
NoResult == [field_types |-> EmptyMap, valid_fields |-> {}, block |-> EmptyMap]
DIdle == [annotations |-> EmptyMap, attrs |-> EmptyMap, explicit_fields |-> None,
          instance_defaults |-> EmptyMap]

ThreadInit ==
    /\ tmp = [t \in Threads |-> NoFile]
    /\ lock = NoThread
    /\ pc = [t \in Threads |-> "idle"]
    /\ cls = [t \in Threads |-> "none"]
    /\ runs = [t \in Threads |-> 0]
    /\ inst = [t \in Threads |-> EmptyMap]
    /\ field_types = [t \in Threads |-> EmptyMap]
    /\ fields = [t \in Threads |-> {}]
    /\ class_config = [t \in Threads |-> EmptyMap]
    /\ defaults = [t \in Threads |-> EmptyMap]
    /\ reread = [t \in Threads |-> EmptyDoc]
    /\ full_config = [t \in Threads |-> EmptyDoc]
    /\ class_block = [t \in Threads |-> EmptyMap]
    /\ err = [t \in Threads |-> "none"]
    /\ raisedIn = [t \in Threads |-> "none"]
    /\ setErr = [t \in Threads |-> "none"]
    /\ enter_config = [t \in Threads |-> EmptyDoc]
    /\ lastSave = "none"

Init ==
    /\ file \in InitFiles
    /\ ThreadInit
    /\ dIn = DIdle /\ dOut = NoResult /\ dPc = "off"

Raise(t, where, e) ==
    /\ pc' = [pc EXCEPT ![t] = "raised"]
    /\ err' = [err EXCEPT ![t] = e]
    /\ raisedIn' = [raisedIn EXCEPT ![t] = where]
    /\ enter_config' = [enter_config EXCEPT ![t] = EmptyDoc]

\* new_init, line 148: original_init(instance, *args, **kwargs).  Its
\* assignments go through the class's __setattr__.
OriginalInit(t, id) ==
    LET c == ClassOf(id) IN
    /\ pc[t] \in {"idle", "done", "assigned", "raised"}
    /\ runs[t] < MaxRuns
    /\ runs' = [runs EXCEPT ![t] = @ + 1]
    /\ cls' = [cls EXCEPT ![t] = id]
    /\ setErr' = [setErr EXCEPT ![t] = "none"]
    /\ field_types' = [field_types EXCEPT ![t] = EmptyMap]
    /\ fields' = [fields EXCEPT ![t] = {}]
    /\ class_config' = [class_config EXCEPT ![t] = EmptyMap]
    /\ defaults' = [defaults EXCEPT ![t] = EmptyMap]
    /\ reread' = [reread EXCEPT ![t] = EmptyDoc]
    /\ full_config' = [full_config EXCEPT ![t] = EmptyDoc]
    /\ class_block' = [class_block EXCEPT ![t] = EmptyMap]
    /\ IF DOMAIN c.ctor # {} /\ setattr_error(c) # "none"
       THEN /\ inst' = [inst EXCEPT ![t] = EmptyMap]
            /\ Raise(t, "original_init", setattr_error(c))
       ELSE /\ inst' = [inst EXCEPT ![t] = c.ctor]
            /\ pc' = [pc EXCEPT ![t] = "discover"]
            /\ err' = [err EXCEPT ![t] = "none"]
            /\ raisedIn' = [raisedIn EXCEPT ![t] = "none"]
            /\ UNCHANGED enter_config
    /\ UNCHANGED <<file, tmp, lock, lastSave, dIn, dOut, dPc>>

\* Variant of Discover without the no-fields error.
Discover_NoCheck(t) ==
    LET c == ClassOf(cls[t])
        r == _get_configurable_fields(c.annotations, c.attrs, Inject_fields(c.at),
                                      collect_instance_defaults(c.attrs))
    IN
    /\ pc[t] = "discover"
    /\ field_types' = [field_types EXCEPT ![t] = r.field_types]
    /\ fields' = [fields EXCEPT ![t] = r.valid_fields]
    /\ pc' = [pc EXCEPT ![t] = "enter"]
    /\ UNCHANGED <<err, raisedIn, enter_config>>
    /\ UNCHANGED <<file, tmp, lock, cls, runs, inst, class_config, defaults, reread,
                   full_config, class_block, setErr, lastSave, dIn, dOut, dPc>>

\* new_init, lines 150-170: defaults, discovery, the no-fields error.
Discover(t) ==
    LET c == ClassOf(cls[t])
        r == _get_configurable_fields(c.annotations, c.attrs, Inject_fields(c.at),
                                      collect_instance_defaults(c.attrs))
    IN
    /\ pc[t] = "discover"
    /\ field_types' = [field_types EXCEPT ![t] = r.field_types]
    /\ fields' = [fields EXCEPT ![t] = r.valid_fields]
    /\ IF DOMAIN r.field_types = {}
       THEN Raise(t, "discover", "ValueError")
       ELSE /\ pc' = [pc EXCEPT ![t] = "enter"]
            /\ UNCHANGED <<err, raisedIn, enter_config>>
    /\ UNCHANGED <<file, tmp, lock, cls, runs, inst, class_config, defaults, reread,
                   full_config, class_block, setErr, lastSave, dIn, dOut, dPc>>


\* ConfigSession.__enter__.  open() is outside the try; the try catches
\* JSONDecodeError and OSError only, so a document or a class entry that is
\* not a mapping raises AttributeError at its .get.
Enter(t) ==
    LET c == ClassOf(cls[t])
        loaded == json_load(file)
        entry == DictGet(loaded.val.m, c.key, Block(EmptyMap))
        present == {k \in fields[t] : hasattr(c, inst[t], k)}
    IN
    /\ pc[t] = "enter"
    /\ IF path_exists(file) /\ ~file.readable
       THEN /\ Raise(t, "enter", "PermissionError")
            /\ UNCHANGED <<inst, class_config, defaults>>
       ELSE IF path_exists(file) /\ loaded.ok /\ ~loaded.val.isMap
       THEN /\ Raise(t, "enter", "AttributeError")
            /\ UNCHANGED <<inst, class_config, defaults>>
       ELSE IF path_exists(file) /\ loaded.ok /\ ~entry.isMap /\ present # {}
       THEN /\ Raise(t, "enter", "AttributeError")
            /\ UNCHANGED <<inst, class_config, defaults>>
       ELSE LET cfg == IF path_exists(file) /\ loaded.ok THEN entry.f ELSE EmptyMap IN
            /\ class_config' = [class_config EXCEPT ![t] = cfg]
            /\ defaults' = [defaults EXCEPT ![t] =
                               [k \in present |-> getattr(c, inst[t], k).val]]
            /\ inst' = [inst EXCEPT ![t] =
                           LoadFields(c, inst[t], field_types[t], fields[t], cfg)]
            /\ enter_config' = [enter_config EXCEPT ![t] =
                                   IF path_exists(file) /\ loaded.ok THEN loaded.val
                                   ELSE EmptyDoc]
            /\ pc' = [pc EXCEPT ![t] = "exit"]
            /\ UNCHANGED <<err, raisedIn>>
    /\ UNCHANGED <<file, tmp, lock, cls, runs, field_types, fields, reread,
                   full_config, class_block, setErr, lastSave, dIn, dOut, dPc>>

\* Variant of ExitRead that merges into the copy read by __enter__.
ExitRead_Stale(t) ==
    LET loaded == json_load(file)
        doc == IF path_exists(file) /\ file.readable /\ loaded.ok
               THEN loaded.val ELSE EmptyDoc
    IN
    /\ pc[t] = "exit"
    /\ reread' = [reread EXCEPT ![t] = doc]
    /\ full_config' = [full_config EXCEPT ![t] = enter_config[t]]
    /\ pc' = [pc EXCEPT ![t] = "build"]
    /\ UNCHANGED <<file, tmp, lock, cls, runs, inst, field_types, fields, class_config,
                   defaults, class_block, err, raisedIn, setErr, enter_config, lastSave,
                   dIn, dOut, dPc>>

\* ConfigSession.__exit__, lines 98-104: the re-read.  open() is inside the
\* try here, so an unreadable file counts as an empty document.
ExitRead(t) ==
    LET loaded == json_load(file)
        doc == IF path_exists(file) /\ file.readable /\ loaded.ok
               THEN loaded.val ELSE EmptyDoc
    IN
    /\ pc[t] = "exit"
    /\ reread' = [reread EXCEPT ![t] = doc]
    /\ full_config' = [full_config EXCEPT ![t] = doc]
    /\ pc' = [pc EXCEPT ![t] = "build"]
    /\ UNCHANGED <<file, tmp, lock, cls, runs, inst, field_types, fields, class_config,
                   defaults, class_block, err, raisedIn, setErr, enter_config, lastSave,
                   dIn, dOut, dPc>>

\* Variant of ExitBuild without the read-only test before the write.
ExitBuild_AlwaysWrite(t) ==
    LET c == ClassOf(cls[t])
        block == BuildBlock(c, inst[t], field_types[t], fields[t])
    IN
    /\ pc[t] = "build"
    /\ class_block' = [class_block EXCEPT ![t] = block]
    /\ IF ~full_config[t].isMap
       THEN /\ Raise(t, "exit", "TypeError")
            /\ UNCHANGED full_config
       ELSE /\ full_config' = [full_config EXCEPT ![t] = MergeBlock(@, c.key, block)]
            /\ pc' = [pc EXCEPT ![t] = "lock"]
            /\ UNCHANGED <<err, raisedIn, enter_config>>
    /\ UNCHANGED <<file, tmp, lock, cls, runs, inst, field_types, fields, class_config,
                   defaults, reread, setErr, lastSave, dIn, dOut, dPc>>

\* Lines 106-117: build the block, put it into full_config, and return
\* without writing when the session is read-only.
ExitBuild(t) ==
    LET c == ClassOf(cls[t])
        block == BuildBlock(c, inst[t], field_types[t], fields[t])
    IN
    /\ pc[t] = "build"
    /\ class_block' = [class_block EXCEPT ![t] = block]
    /\ IF ~full_config[t].isMap
       THEN /\ Raise(t, "exit", "TypeError")
            /\ UNCHANGED full_config
       ELSE /\ full_config' = [full_config EXCEPT ![t] = MergeBlock(@, c.key, block)]
            /\ pc' = [pc EXCEPT ![t] = IF ~c.readonly THEN "lock" ELSE "done"]
            /\ enter_config' = [enter_config EXCEPT ![t] =
                                   IF ~c.readonly THEN @ ELSE EmptyDoc]
            /\ UNCHANGED <<err, raisedIn>>
    /\ UNCHANGED <<file, tmp, lock, cls, runs, inst, field_types, fields, class_config,
                   defaults, reread, setErr, lastSave, dIn, dOut, dPc>>

saveFrame == <<cls, runs, inst, field_types, fields, class_config, defaults, reread,
               full_config, class_block, setErr, dIn, dOut, dPc>>

\* Variant of AcquireLock that does not wait for the holder.
AcquireLock_NoWait(t) ==
    /\ pc[t] = "lock"
    /\ lock' = t
    /\ pc' = [pc EXCEPT ![t] = "mkstemp"]
    /\ UNCHANGED <<file, tmp, err, raisedIn>>
    /\ UNCHANGED <<enter_config, lastSave>>
    /\ UNCHANGED saveFrame

\* with _LOCK:
AcquireLock(t) ==
    /\ pc[t] = "lock"
    /\ lock = NoThread
    /\ lock' = t
    /\ pc' = [pc EXCEPT ![t] = "mkstemp"]
    /\ UNCHANGED <<file, tmp, err, raisedIn>>
    /\ UNCHANGED <<enter_config, lastSave>>
    /\ UNCHANGED saveFrame

\* tempfile.mkstemp: an empty file in the target's directory.
Mkstemp(t) ==
    /\ pc[t] = "mkstemp"
    /\ tmp' = [tmp EXCEPT ![t] = [kind |-> "empty", val |-> NotADoc, readable |-> TRUE]]
    /\ pc' = [pc EXCEPT ![t] = "write"]
    /\ UNCHANGED <<file, lock, err, raisedIn>>
    /\ UNCHANGED <<enter_config, lastSave>>
    /\ UNCHANGED saveFrame

\* mkstemp is outside the try: its failure leaves the with block directly.
MkstempFail(t) ==
    /\ pc[t] = "mkstemp"
    /\ lock' = NoThread
    /\ Raise(t, "exit", "OSError")
    /\ UNCHANGED <<file, tmp>>
    /\ UNCHANGED lastSave
    /\ UNCHANGED saveFrame

\* Variant of WriteBegin that writes the target in place.
WriteBegin_InPlace(t) ==
    /\ pc[t] = "write"
    /\ file' = Partial(full_config[t])
    /\ pc' = [pc EXCEPT ![t] = "writing"]
    /\ UNCHANGED <<tmp, lock, err, raisedIn>>
    /\ UNCHANGED <<enter_config, lastSave>>
    /\ UNCHANGED saveFrame

\* json.dump writes the document to the temp file piece by piece.
WriteBegin(t) ==
    /\ pc[t] = "write"
    /\ tmp' = [tmp EXCEPT ![t] = Partial(full_config[t])]
    /\ pc' = [pc EXCEPT ![t] = "writing"]
    /\ UNCHANGED <<file, lock, err, raisedIn>>
    /\ UNCHANGED <<enter_config, lastSave>>
    /\ UNCHANGED saveFrame

WriteEnd(t) ==
    /\ pc[t] = "writing"
    /\ tmp' = [tmp EXCEPT ![t] = json_dump(full_config[t])]
    /\ pc' = [pc EXCEPT ![t] = "replace"]
    /\ UNCHANGED <<file, lock, err, raisedIn>>
    /\ UNCHANGED <<enter_config, lastSave>>
    /\ UNCHANGED saveFrame

\* os.fdopen, json.dump or the close of the temp file raises.
WriteFail(t) ==
    /\ pc[t] \in {"write", "writing"}
    /\ pc' = [pc EXCEPT ![t] = "unlink"]
    /\ UNCHANGED <<file, tmp, lock, err, raisedIn>>
    /\ UNCHANGED <<enter_config, lastSave>>
    /\ UNCHANGED saveFrame

\* os.replace(tmp_path, self._path): atomic.
Replace(t) ==
    /\ pc[t] = "replace"
    /\ file' = tmp[t]
    /\ tmp' = [tmp EXCEPT ![t] = NoFile]
    /\ pc' = [pc EXCEPT ![t] = "release"]
    /\ UNCHANGED <<lock, err, raisedIn>>
    /\ lastSave' = cls[t]
    /\ UNCHANGED enter_config
    /\ UNCHANGED saveFrame

ReplaceFail(t) ==
    /\ pc[t] = "replace"
    /\ pc' = [pc EXCEPT ![t] = "unlink"]
    /\ UNCHANGED <<file, tmp, lock, err, raisedIn>>
    /\ UNCHANGED <<enter_config, lastSave>>
    /\ UNCHANGED saveFrame

\* Variant of Unlink that leaves the temp file behind.
Unlink_Skip(t) ==
    /\ pc[t] = "unlink"
    /\ pc' = [pc EXCEPT ![t] = "reraise"]
    /\ UNCHANGED <<file, tmp, lock, err, raisedIn>>
    /\ UNCHANGED <<enter_config, lastSave>>
    /\ UNCHANGED saveFrame

\* except Exception: os.unlink(tmp_path)
Unlink(t) ==
    /\ pc[t] = "unlink"
    /\ tmp' = [tmp EXCEPT ![t] = NoFile]
    /\ pc' = [pc EXCEPT ![t] = "reraise"]
    /\ UNCHANGED <<file, lock, err, raisedIn>>
    /\ UNCHANGED <<enter_config, lastSave>>
    /\ UNCHANGED saveFrame

\* Variant of ReleaseRaise that raises without releasing the lock.
ReleaseRaise_KeepLock(t) ==
    /\ pc[t] = "reraise"
    /\ Raise(t, "exit", "OSError")
    /\ UNCHANGED <<file, tmp, lock>>
    /\ UNCHANGED lastSave
    /\ UNCHANGED saveFrame

\* raise: the with block releases the lock on the way out.
ReleaseRaise(t) ==
    /\ pc[t] = "reraise"
    /\ lock' = NoThread
    /\ Raise(t, "exit", "OSError")
    /\ UNCHANGED <<file, tmp>>
    /\ UNCHANGED lastSave
    /\ UNCHANGED saveFrame

\* Normal end of the with block.
Release(t) ==
    /\ pc[t] = "release"
    /\ lock' = NoThread
    /\ pc' = [pc EXCEPT ![t] = "done"]
    /\ UNCHANGED <<file, tmp, err, raisedIn>>
    /\ enter_config' = [enter_config EXCEPT ![t] = EmptyDoc]
    /\ UNCHANGED lastSave
    /\ UNCHANGED saveFrame

\* Code outside the class assigns an attribute of the constructed instance.
Assign(t, name, value) ==
    LET c == ClassOf(cls[t]) IN
    /\ pc[t] \in {"done", "assigned"}
    /\ setErr' = [setErr EXCEPT ![t] = setattr_error(c)]
    /\ IF setattr_error(c) = "none"
       THEN /\ inst' = [inst EXCEPT ![t] =
                           [k \in (DOMAIN @) \cup {name} |-> IF k = name THEN value ELSE @[k]]]
            /\ pc' = [pc EXCEPT ![t] = "assigned"]
       ELSE UNCHANGED <<inst, pc>>
    /\ UNCHANGED <<file, tmp, lock, cls, runs, field_types, fields, class_config,
                   defaults, reread, full_config, class_block, err, raisedIn,
                   enter_config, lastSave, dIn, dOut, dPc>>

AssignNames == {size}
AssignValues == {"i:42"}

\* The steps of a construction after original_init.
Later(t) ==
    \/ Discover(t)
    \/ Enter(t)
    \/ ExitRead(t)
    \/ ExitBuild(t)
    \/ AcquireLock(t)
    \/ Mkstemp(t)
    \/ MkstempFail(t)
    \/ WriteBegin(t)
    \/ WriteEnd(t)
    \/ WriteFail(t)
    \/ Replace(t)
    \/ ReplaceFail(t)
    \/ Unlink(t)
    \/ ReleaseRaise(t)
    \/ Release(t)

Step(t) ==
    \/ \E id \in ClassIds : OriginalInit(t, id)
    \/ Later(t)
    \/ \E n \in AssignNames, v \in AssignValues : Assign(t, n, v)

Next == \E t \in Threads : Step(t)

Spec == Init /\ [][Next]_vars

\* One construction at a time: a thread starts a construction, or assigns
\* to its instance, only while every other thread is outside a construction.
Quiet(t) == \A u \in Threads \ {t} : pc[u] \in {"idle", "done", "assigned", "raised"}

StartSeq(t, id) == Quiet(t) /\ OriginalInit(t, id)

AssignSeq(t, name, value) == Quiet(t) /\ Assign(t, name, value)

NextSeq ==
    \E t \in Threads :
        \/ \E id \in ClassIds : StartSeq(t, id)
        \/ Later(t)
        \/ \E n \in AssignNames, v \in AssignValues : AssignSeq(t, n, v)

SpecSeq == Init /\ [][NextSeq]_vars


\* ------------------------------------------- field discovery on its own
\* Every class over DNames (any annotations, any class attributes), any
\* whitelist and any defaults mapping.
DInputs ==
    { [annotations |-> [n \in an |-> "int"],
       attrs |-> [n \in {m \in DNames : kinds[m] # "absent"} |->
                     IF kinds[n] = "method" THEN Method ELSE Data("i:10")],
       explicit_fields |-> ef,
       instance_defaults |-> [n \in df |-> "i:10"]] :
        an \in SUBSET DNames, kinds \in [DNames -> DAttrKinds],
        ef \in {None} \cup {Some(w) : w \in SUBSET DNames}, df \in SUBSET DNames }

InitDiscover ==
    /\ file = NoFile
    /\ ThreadInit
    /\ dIn \in DInputs /\ dOut = NoResult /\ dPc = "in"

DDiscover ==
    /\ dPc = "in"
    /\ LET r == _get_configurable_fields(dIn.annotations, dIn.attrs, dIn.explicit_fields,
                                         dIn.instance_defaults)
       IN dOut' = [dOut EXCEPT !.field_types = r.field_types,
                               !.valid_fields = r.valid_fields]
    /\ dPc' = "out"
    /\ UNCHANGED dIn
    /\ UNCHANGED threadVars

\* The class block a session's __exit__ builds from the returned pair.
DBuild ==
    /\ dPc = "out"
    /\ dOut' = [dOut EXCEPT !.block =
                   BuildBlock([attrs |-> dIn.attrs], EmptyMap, dOut.field_types,
                              dOut.valid_fields)]
    /\ dPc' = "built"
    /\ UNCHANGED dIn
    /\ UNCHANGED threadVars

NextDiscover == DDiscover \/ DBuild

SpecDiscover == InitDiscover /\ [][NextDiscover]_vars


\* ------------------------------------------------------------ properties
KeyOf(t) == ClassOf(cls[t]).key
ReadOnly(t) == cls[t] # "none" /\ ClassOf(cls[t]).readonly

\* A file whose text is a complete document that maps class keys to entries.
ReadableDoc(f) == f.kind = "json" /\ f.readable /\ f.val.isMap

\* C1: the target never holds a partially written document (so no load can
\* read one); the only step that changes the target is a successful replace,
\* which installs the complete document of that save; a save that replaced
\* the target does not fail afterwards, so every failed save has left the
\* target as it was.
C1_AtomicSave ==
    /\ [](file.kind \in {"absent", "garbage", "json"})
    /\ [][file' # file =>
            \E t \in Threads : /\ pc[t] = "replace" /\ pc'[t] = "release"
                               /\ file' = json_dump(full_config[t])]_vars
    /\ [][\A t \in Threads : pc[t] = "release" => pc'[t] \in {"release", "done"}]_vars

\* C1 witness: one save has failed in the middle of its temp-file write
\* while another thread is about to load the target, which is intact.
C1_Witness ==
    \E t, u \in Threads :
        /\ t # u
        /\ pc[t] = "unlink" /\ tmp[t].kind = "partial"
        /\ pc[u] = "enter"
        /\ file.kind = "json"

\* C2: once two threads have completed the saves of two non-read-only
\* classes with different keys, the document holds both blocks.
C2_BothBlocksKept ==
    \A t, u \in Threads :
        (/\ t # u
         /\ pc[t] = "done" /\ pc[u] = "done"
         /\ ~ReadOnly(t) /\ ~ReadOnly(u)
         /\ KeyOf(t) # KeyOf(u))
        => /\ ReadableDoc(file)
           /\ KeyOf(t) \in DOMAIN file.val.m
           /\ KeyOf(u) \in DOMAIN file.val.m
           /\ file.val.m[KeyOf(t)] = Block(class_block[t])
           /\ file.val.m[KeyOf(u)] = Block(class_block[u])

SavePcs == {"exit", "build", "lock", "mkstemp", "write", "writing", "replace",
            "unlink", "reraise", "release"}

\* C3: with one construction at a time, no step of a save on a readable
\* document adds, removes or changes a top-level entry other than the
\* entry of the saving class.
C3_OtherEntriesKept ==
    [][\A t \in Threads :
         (pc[t] \in SavePcs /\ ReadableDoc(file)) =>
            /\ ReadableDoc(file')
            /\ DOMAIN file'.val.m \subseteq (DOMAIN file.val.m) \cup {KeyOf(t)}
            /\ \A k \in (DOMAIN file.val.m) \ {KeyOf(t)} :
                  k \in DOMAIN file'.val.m /\ file'.val.m[k] = file.val.m[k]]_vars

\* C3 witness: class B has just replaced a document that held the entries
\* of A, R and X, and A's own hand-edited entry is still in it.
C3_Witness ==
    \E t \in Threads :
        /\ pc[t] = "release" /\ cls[t] = "B"
        /\ ReadableDoc(file)
        /\ {"A", "B", "R", "X"} \subseteq DOMAIN file.val.m
        /\ file.val.m["A"] = HandEdited.m["A"]

\* C4 as stated: a replace keeps every field the session does not manage,
\* those of the saving class's own block included.
C4_UnmanagedFieldsKept ==
    [][\A t \in Threads :
         (pc[t] = "replace" /\ pc'[t] = "release" /\ ReadableDoc(file)) =>
            \A k \in DOMAIN file.val.m : \A f \in DOMAIN file.val.m[k].f :
                (k # KeyOf(t) \/ f \notin fields[t]) =>
                    /\ k \in DOMAIN file'.val.m
                    /\ f \in DOMAIN file'.val.m[k].f
                    /\ file'.val.m[k].f[f] = file.val.m[k].f[f]]_vars

\* C4 amended: a replace keeps every entry of another class exactly as the
\* save re-read it, and installs the newly built block as the saving class's
\* entry; that block holds injectable fields only, so fields of the old own
\* block outside the injectable set are dropped.
C4_OtherBlocksKeptOwnReplaced ==
    [][\A t \in Threads :
         (pc[t] = "replace" /\ pc'[t] = "release") =>
            /\ ReadableDoc(file')
            /\ \A k \in (DOMAIN reread[t].m) \ {KeyOf(t)} :
                  k \in DOMAIN file'.val.m /\ file'.val.m[k] = reread[t].m[k]
            /\ file'.val.m[KeyOf(t)] = Block(class_block[t])
            /\ DOMAIN class_block[t] \subseteq fields[t]]_vars

\* C4 witness: A has replaced the hand-edited document; X's block is as it
\* was and the field extra of A's old block is gone.
C4_Witness ==
    \E t \in Threads :
        /\ pc[t] = "release" /\ cls[t] = "A"
        /\ {"A", "X"} \subseteq DOMAIN reread[t].m
        /\ extra \in DOMAIN reread[t].m["A"].f
        /\ {"A", "X"} \subseteq DOMAIN file.val.m
        /\ file.val.m["X"] = HandEdited.m["X"]
        /\ extra \notin DOMAIN file.val.m["A"].f

\* The document cannot be used by a session of class key: absent,
\* unreadable, not JSON, not a mapping, or key's entry is not a mapping.
Unusable(f, key) ==
    \/ ~path_exists(f)
    \/ ~f.readable
    \/ f.kind # "json"
    \/ ~f.val.isMap
    \/ (key \in DOMAIN f.val.m /\ ~f.val.m[key].isMap)

\* C5: whatever the state of the document, the load of a non-read-only
\* class does not raise: on an unusable document it goes on to the save with
\* an empty class_config and the instance's defaults, and the save then
\* writes a document holding the class's block only.
C5_LoadNeverRaises ==
    /\ [][\A t \in Threads :
            (pc[t] = "enter" /\ pc'[t] # "enter" /\ ~ReadOnly(t)
                /\ Unusable(file, KeyOf(t))) =>
               /\ pc'[t] = "exit"
               /\ class_config'[t] = EmptyMap
               /\ \A k \in fields[t] :
                     getattr(ClassOf(cls[t]), inst'[t], k)
                        = getattr(ClassOf(cls[t]), inst[t], k)]_vars
    /\ [][\A t \in Threads :
            (pc[t] = "replace" /\ pc'[t] = "release" /\ Unusable(file, KeyOf(t))) =>
               file' = json_dump(Doc(KeyOf(t) :> Block(class_block[t])))]_vars
    /\ [](\A t \in Threads : ~(raisedIn[t] = "exit" /\ err[t] = "TypeError"))

\* C6: after construction every injected field equals the decoded persisted
\* value when the class's block holds the field and decoding succeeds, and
\* the value it had before the load when the block does not hold it.
C6_FieldsPopulated ==
    \A t \in Threads :
        pc[t] = "done" =>
            \A f \in fields[t] :
                LET now == getattr(ClassOf(cls[t]), inst[t], f).val IN
                IF f \in DOMAIN class_config[t]
                THEN LET d == deserialize_value(class_config[t][f], field_types[t][f])
                     IN  d.ok => now = d.val
                ELSE now = defaults[t][f]

\* C7: no step of a thread constructing an instance of a read-only class
\* changes the document file or any temp file.
C7_ReadOnlyNeverWrites ==
    [][\A t \in Threads :
         ((pc'[t] # pc[t] \/ runs'[t] # runs[t]) /\ ReadOnly(t)')
            => (file' = file /\ tmp' = tmp)]_vars

\* C7 witness: a read-only construction has completed on an absent document,
\* which is still absent, and no temp file exists.
C7_Witness ==
    \E t \in Threads :
        /\ pc[t] = "done" /\ ReadOnly(t)
        /\ file = NoFile
        /\ \A u \in Threads : tmp[u] = NoFile

\* C8: an assignment to an attribute of a constructed read-only instance
\* fails with the read-only violation error (the AttributeError that names
\* the property).
C8_ReadOnlyViolation ==
    \A t \in Threads :
        (ReadOnly(t) /\ setErr[t] # "none") => setErr[t] = "AttributeError"

\* C9: every name field discovery returns is annotated, is a key of the
\* defaults mapping, does not start with an underscore and is not callable
\* on the class; field_types has exactly these names as keys; and the block
\* a save builds from them holds no other name.
C9_DiscoveredFieldsSafe ==
    dPc \in {"out", "built"} =>
        /\ \A n \in dOut.valid_fields :
              /\ n \in DOMAIN dIn.annotations
              /\ n \in DOMAIN dIn.instance_defaults
              /\ n[1] # "_"
              /\ ~(n \in DOMAIN dIn.attrs /\ dIn.attrs[n].callable)
        /\ DOMAIN dOut.field_types = dOut.valid_fields
        /\ DOMAIN dOut.block \subseteq dOut.valid_fields

\* C9 witness: discovery has run on a class in which a private name and a
\* method are annotated, whitelisted and in the defaults mapping; it returned
\* size alone, and the block built from it holds size.
C9_Witness ==
    /\ dPc = "built"
    /\ dIn.explicit_fields = Some(DNames)
    /\ DOMAIN dIn.annotations = DNames
    /\ DOMAIN dIn.instance_defaults = DNames
    /\ run \in DOMAIN dIn.attrs /\ dIn.attrs[run].callable
    /\ dOut.valid_fields = {size}
    /\ DOMAIN dOut.block = {size}

\* C10: with an explicit whitelist, the injected fields and the fields of
\* the class block are within the whitelist, and a whitelist none of whose
\* names qualifies (the empty one included) ends the construction with the
\* no-eligible-fields error.
C10_WhitelistRestricts ==
    \A t \in Threads :
        (/\ cls[t] # "none"
         /\ pc[t] \notin {"idle", "discover"}
         /\ raisedIn[t] # "original_init"
         /\ ~ClassOf(cls[t]).at.isNone) =>
            LET c == ClassOf(cls[t]) IN
            /\ fields[t] \subseteq c.at.names
            /\ DOMAIN class_block[t] \subseteq c.at.names
            /\ (\A n \in c.at.names :
                    ~Qualifies(n, c.annotations, collect_instance_defaults(c.attrs), c.attrs))
                => (pc[t] = "raised" /\ raisedIn[t] = "discover" /\ err[t] = "ValueError")


\* C11: the step of a thread whose discovery returns no field ends the
\* construction with the no-eligible-fields error and changes neither the
\* instance nor the document, a temp file or the lock; a construction ended
\* this way has opened no session (nothing loaded, nothing re-read).
C11_NoFieldsFailsEarly ==
    /\ [][\A t \in Threads :
            (pc[t] = "discover" /\ pc'[t] # "discover" /\ fields'[t] = {}) =>
               /\ pc'[t] = "raised" /\ err'[t] = "ValueError"
               /\ raisedIn'[t] = "discover"
               /\ inst'[t] = inst[t]
               /\ file' = file /\ tmp' = tmp /\ lock' = lock]_vars
    /\ [](\A t \in Threads :
            raisedIn[t] = "discover" =>
               /\ fields[t] = {}
               /\ inst[t] = ClassOf(cls[t]).ctor
               /\ class_config[t] = EmptyMap /\ defaults[t] = EmptyMap
               /\ reread[t] = EmptyDoc /\ class_block[t] = EmptyMap
               /\ tmp[t] = NoFile /\ lock # t)

\* C11 witness: class W, whose whitelist names no eligible field, has ended
\* with the error and the hand-edited document is still in place.
C11_Witness ==
    \E t \in Threads :
        /\ cls[t] = "W" /\ pc[t] = "raised"
        /\ raisedIn[t] = "discover" /\ err[t] = "ValueError"
        /\ file = json_dump(HandEdited)

\* The decoding the load attempts for field k of thread t.
Decoded(t, k) ==
    deserialize_value(
        DictGet(class_config'[t], k, getattr(ClassOf(cls[t]), inst[t], k).val),
        field_types[t][k])

\* C12: a load on a usable document does not raise; when decoding fails for
\* some field, every field whose decoding fails keeps its value from before
\* the load and every field whose decoding succeeds holds the decoded value.
C12_BadFieldSkipped ==
    [][\A t \in Threads :
         (pc[t] = "enter" /\ pc'[t] # "enter" /\ ~Unusable(file, KeyOf(t))) =>
            /\ pc'[t] = "exit"
            /\ (\E k \in fields[t] : ~Decoded(t, k).ok) =>
                  \A g \in fields[t] :
                     getattr(ClassOf(cls[t]), inst'[t], g).val =
                        IF Decoded(t, g).ok THEN Decoded(t, g).val
                        ELSE getattr(ClassOf(cls[t]), inst[t], g).val]_vars

\* Positions at which the class block of the current save has been built.
BuiltPcs == {"lock", "mkstemp", "write", "writing", "replace", "unlink", "reraise",
             "release", "done"}

\* C13: the class block holds exactly the injectable fields whose encoding
\* succeeds, each with the encoding of the instance's current value; a
\* failing field does not stop the save, and the replace persists the block.
C13_BlockOfEncodableFields ==
    /\ [](\A t \in Threads :
            pc[t] \in BuiltPcs =>
               /\ DOMAIN class_block[t] \subseteq fields[t]
               /\ \A k \in fields[t] :
                     LET e == serialize_value(getattr(ClassOf(cls[t]), inst[t], k).val,
                                              field_types[t][k])
                     IN  IF e.ok
                         THEN k \in DOMAIN class_block[t] /\ class_block[t][k] = e.val
                         ELSE k \notin DOMAIN class_block[t])
    /\ [](\A t \in Threads :
            pc[t] = "release" =>
               /\ ReadableDoc(file)
               /\ KeyOf(t) \in DOMAIN file.val.m
               /\ file.val.m[KeyOf(t)] = Block(class_block[t]))
    /\ [][\A t \in Threads :
            (pc[t] = "build" /\ pc'[t] # "build" /\ full_config[t].isMap) =>
               pc'[t] \in {"lock", "done"}]_vars

\* C13 witness: class B, whose field tag cannot be encoded, has replaced the
\* document; its block holds level and not tag.
C13_Witness ==
    \E t \in Threads :
        /\ cls[t] = "B" /\ pc[t] = "release"
        /\ ReadableDoc(file) /\ "B" \in DOMAIN file.val.m
        /\ file.val.m["B"] = Block(level :> "42")


\* C14: with one construction at a time, when the save that last replaced
\* the target was a save of the same class, this save builds the block that
\* is already in the document and its replace leaves the document as it was.
C14_SecondSaveSame ==
    [][\A t \in Threads :
         (pc[t] = "replace" /\ pc'[t] = "release" /\ lastSave = cls[t]) =>
            /\ ReadableDoc(file)
            /\ KeyOf(t) \in DOMAIN file.val.m
            /\ file.val.m[KeyOf(t)] = Block(class_block[t])
            /\ file' = file]_vars

\* C14 witness: two instances of class A have been constructed one after
\* the other on the hand-edited document and the second has just replaced it.
C14_Witness ==
    \E t, u \in Threads :
        /\ t # u
        /\ cls[t] = "A" /\ cls[u] = "A"
        /\ pc[u] = "done" /\ pc[t] = "release"
        /\ lastSave = "A"
        /\ ReadableDoc(file) /\ "A" \in DOMAIN file.val.m
        /\ file.val.m["A"] = Block(size :> "42" @@ level :> "10")
        /\ class_block[u] = class_block[t]

\* Positions at which a thread is inside the with _LOCK block.
LockedPcs == {"mkstemp", "write", "writing", "replace", "unlink", "reraise", "release"}

\* C15: a save that fails in the temp-file write or in the replace ends by
\* raising the failure with its temp file removed and the lock free; a
\* thread outside the with block has no temp file and does not hold the lock.
C15_FailureCleansUp ==
    /\ [][\A t \in Threads :
            (pc[t] \in {"write", "writing", "replace"} /\ pc'[t] # pc[t]) =>
               pc'[t] \in {"writing", "replace", "release", "unlink"}]_vars
    /\ [][\A t \in Threads :
            (pc[t] \in {"unlink", "reraise"} /\ pc'[t] \notin {"unlink", "reraise"}) =>
               /\ pc'[t] = "raised" /\ err'[t] = "OSError" /\ raisedIn'[t] = "exit"
               /\ tmp'[t] = NoFile
               /\ lock' = NoThread]_vars
    /\ [](\A t \in Threads : pc[t] \notin LockedPcs => (tmp[t] = NoFile /\ lock # t))

\* C15 witness: a save has failed and raised; its temp file is gone, the
\* lock is free and the document is the one from before.
C15_Witness ==
    \E t \in Threads :
        /\ pc[t] = "raised" /\ raisedIn[t] = "exit" /\ err[t] = "OSError"
        /\ tmp[t] = NoFile /\ lock = NoThread
        /\ file = json_dump(HandEdited)

\* C16: at most one thread is inside the with _LOCK block, and that thread
\* is the holder of the lock.
C16_MutualExclusion ==
    /\ \A t, u \in Threads : (pc[t] \in LockedPcs /\ pc[u] \in LockedPcs) => t = u
    /\ \A t \in Threads : pc[t] \in LockedPcs => lock = t
    /\ \A t \in Threads : tmp[t] # NoFile => pc[t] \in LockedPcs

\* C16 witness: one thread is writing its temp file while the other waits
\* for the lock.
C16_Witness ==
    \E t, u \in Threads :
        /\ pc[t] = "writing" /\ tmp[t].kind = "partial" /\ lock = t
        /\ pc[u] = "lock"

\* C17: the events of a construction occur in the order constructor body,
\* discovery, load, save; the read-only lock engages after them, so no
\* assignment of the constructor body is rejected.
C17_ReadOnlyEngagesLast ==
    /\ [][\A t \in Threads :
            /\ (pc'[t] = "discover" /\ pc[t] # "discover")
                  => pc[t] \in {"idle", "done", "assigned", "raised"}
            /\ (pc'[t] = "enter" /\ pc[t] # "enter") => pc[t] = "discover"
            /\ (pc'[t] = "exit" /\ pc[t] # "exit") => pc[t] = "enter"
            /\ (pc'[t] = "build" /\ pc[t] # "build") => pc[t] = "exit"]_vars
    /\ [](\A t \in Threads : raisedIn[t] # "original_init")

\* C18: every entry of another class that appeared or changed in the
\* document between this session's load and the start of its save is in the
\* document this session's replace installs, exactly as the re-read saw it.
C18_MergesIntoReread ==
    [][\A t \in Threads :
         (pc[t] = "replace" /\ pc'[t] = "release") =>
            \A k \in (DOMAIN reread[t].m) \ {KeyOf(t)} :
               (k \notin DOMAIN enter_config[t].m
                   \/ enter_config[t].m[k] # reread[t].m[k]) =>
                  /\ ReadableDoc(file')
                  /\ k \in DOMAIN file'.val.m
                  /\ file'.val.m[k] = reread[t].m[k]]_vars

\* C18 witness: S loaded an absent document, B's save completed before S's
\* re-read, and S has replaced the document: B's block is in it.
C18_Witness ==
    \E t, u \in Threads :
        /\ cls[t] = "S" /\ pc[t] = "release"
        /\ cls[u] = "B" /\ pc[u] = "done"
        /\ enter_config[t] = EmptyDoc
        /\ "B" \in DOMAIN reread[t].m
        /\ ReadableDoc(file)
        /\ DOMAIN file.val.m = {"B", "S"}
        /\ file.val.m["B"] = Block(class_block[u])

\* C20: after the replace of a construction of a class that is not
\* read-only, every injectable field whose persisted value the load could
\* not decode holds the encoding of the value the instance had before the
\* load, or is absent from the block when that value cannot be encoded.
C20_UndecodableOverwritten ==
    \A t \in Threads :
        (pc[t] = "release" /\ ~ReadOnly(t)) =>
            /\ ReadableDoc(file)
            /\ KeyOf(t) \in DOMAIN file.val.m
            /\ \A k \in fields[t] :
                  (/\ k \in DOMAIN class_config[t]
                   /\ ~deserialize_value(class_config[t][k], field_types[t][k]).ok) =>
                      LET e == serialize_value(defaults[t][k], field_types[t][k])
                          blk == file.val.m[KeyOf(t)].f
                      IN  IF e.ok THEN k \in DOMAIN blk /\ blk[k] = e.val
                          ELSE k \notin DOMAIN blk

\* C20 witness: A loaded the hand-edited document, whose level cannot be
\* decoded, and has replaced it: level now holds the encoded default.
C20_Witness ==
    \E t \in Threads :
        /\ cls[t] = "A" /\ pc[t] = "release"
        /\ level \in DOMAIN class_config[t] /\ class_config[t][level] = "bad"
        /\ ReadableDoc(file) /\ "A" \in DOMAIN file.val.m
        /\ file.val.m["A"].f[level] = "10"


\* Fair scheduling: a thread that can take the next step of its
\* construction eventually takes it.  A thread waiting on _LOCK can take its
\* step whenever the lock is free.
Fairness == \A t \in Threads : WF_vars(Later(t))

\* The classes and initial documents of the fair specification: one class
\* that saves, one read-only, one without fields, one whose constructor is
\* rejected; an absent, a non-mapping and a hand-edited document.
FairClassIds == {"A", "R", "W", "RC"}
FairFiles == {NoFile, json_dump(NotADoc), json_dump(HandEdited)}

InitFair ==
    /\ file \in FairFiles
    /\ ThreadInit
    /\ dIn = DIdle /\ dOut = NoResult /\ dPc = "off"

NextFair ==
    \E t \in Threads :
        \/ \E id \in FairClassIds : OriginalInit(t, id)
        \/ Later(t)

SpecFair == InitFair /\ [][NextFair]_vars /\ Fairness

\* Positions of a construction that has started and not yet ended.
RunningPcs ==
    {"discover", "enter", "exit", "build", "lock", "mkstemp", "write", "writing",
     "replace", "unlink", "reraise", "release"}

\* C19: under fair scheduling every started construction completes or
\* raises and a held lock is eventually released; only a thread waiting to
\* acquire _LOCK can be unable to take its next step, so the load phase and
\* the holder of the lock wait for no other thread.
C19_EveryConstructionEnds ==
    /\ \A t \in Threads : (pc[t] \in RunningPcs) ~> (pc[t] \in {"done", "raised"})
    /\ \A t \in Threads : (lock = t) ~> (lock = NoThread)
    /\ [](\A t \in Threads : (pc[t] \in RunningPcs \ {"lock"}) => ENABLED Later(t))

\* C19 witness: one thread waits for the lock while the other, whose write
\* failed, still holds it and is about to re-raise.
C19_Witness ==
    \E t, u \in Threads :
        /\ pc[t] = "lock"
        /\ pc[u] = "reraise" /\ lock = u /\ tmp[u] = NoFile

====
